---- MODULE Spec2Model ----
(***************************************************************************)
(* State-machine model of combined_tool.py.                                *)
(*                                                                         *)
(*   Spec      the Invidious client: InvidiousAPI.__init__,                *)
(*             _initial_health_check, _get_best_instance, _make_request.   *)
(*   RateSpec  the rating loop of main() with the sheet exporter's         *)
(*             get_next_raw_video, delete_raw_video and                    *)
(*             add_to_enhanced_tobe_links.                                 *)
(*   ValidateSpec  extract_enhanced_metadata and validate_enhanced_video   *)
(*             applied to one search hit.                                  *)
(*   CollectSpec   the loop of collect_videos_enhanced.                    *)
(*   FetchSpec     the three passes of fetch_controlled_comments.          *)
(*   ScoreSpec     analyze_comments_for_category and                       *)
(*             calculate_enhanced_score applied to one video.              *)
(*                                                                         *)
(* response_time is kept as a latency class (fast or slow); scores are    *)
(* kept in hundredths of a point (6.5 is 650).                            *)
(***************************************************************************)
EXTENDS Integers, Sequences, FiniteSets, TLC

\* ------------------------------------------------------------- bounds
\* number of configured instances (len(self.instances))
NumInst == 2
\* cap on failure_count (the code lets it grow without limit)
MaxFail == 3
\* rows in raw_links when rating starts
QLen == 2
\* store calls (delete_rows / append_row) that may raise in one run
MaxStoreFail == 2
\* largest target_count a collection is asked for
MaxTarget == 2
\* hits a search returns at most (the code asks for target_count * 3)
MaxResults == 3
\* items one commentThreads response holds at most (the code asks for 100)
MaxItems == 2
\* largest number of comments a fetch is asked for (the code asks for 400)
MaxWanted == 3

\* -------------------------------------------------- program constants
\* InvidiousAPI.__init__(..., max_retries: int = 3)
max_retries == 3
\* main(): if score >= 6.5, in hundredths
Threshold == 650
\* calculate_enhanced_score: min(final_score, 10.0), in hundredths
MaxScore == 1000
\* validate_enhanced_video: if duration < 90
MinDuration == 90
\* validate_enhanced_video: if view_count < 10000
MinViews == 10000

VARIABLES
    \* InvidiousInstance fields, one per instance
    failure_count, is_available, response_time,
    \* _make_request: position, loop variable, chosen instance, last
    \* response/exception of the current attempt, value returned
    pc, attempt, instance, outcome, result,
    \* HTTP GETs issued on behalf of the current logical request
    apiCalls, probeCalls,
    \* whole seconds slept by the last attempt before the loop went on, and
    \* what each probe of the last health check observed
    backoff, probed,
    \* sheets: data rows of raw_links and of tobe_links
    raw_links, tobe_links,
    \* main(): st.session_state.is_rating, position in the loop body,
    \* next_video, score, number of store calls that raised so far
    is_rating, rpc, next_video, score, storeFails,
    \* how often each row was scored by calculate_enhanced_score
    scored,
    \* "Stop Rating" was clicked and its handler has not run yet
    stop_pressed,
    \* the message last passed to set_status by the rating tab
    status,
    \* collect_videos_enhanced: position, arguments, search hits not yet
    \* iterated, the hit of the last iteration, what was extracted from
    \* it, the verdict on it, the list being built
    cpc, category, target_count, raw_left, raw_video, video_data, is_valid,
    collected,
    \* fetch_controlled_comments: position, target_count, comments, every
    \* item the API calls returned so far, whether data is bound and holds
    \* a nextPageToken, whether the except handler ran
    fpc, fetch_target, comments, fetched, data_token, fetch_error,
    \* calculate_enhanced_score: position, category, what is read of
    \* comments_data['comments'] and of video_data, comments_analysis,
    \* the final_score and confidence returned
    spc, rate_category, comments_data, rated_video, analysis, final_score,
    confidence

clientVars == <<failure_count, is_available, response_time, pc, attempt,
                instance, outcome, result, apiCalls, probeCalls, backoff,
                probed>>
rateVars == <<raw_links, tobe_links, is_rating, rpc, next_video, score,
              storeFails, scored, stop_pressed, status>>
collectVars == <<cpc, category, target_count, raw_left, raw_video, video_data,
                 is_valid, collected>>
fetchVars == <<fpc, fetch_target, comments, fetched, data_token, fetch_error>>
scoreVars == <<spc, rate_category, comments_data, rated_video, analysis,
               final_score, confidence>>
vars == <<clientVars, rateVars, collectVars, fetchVars, scoreVars>>

Inst == 1..NumInst
None == 0
\* response_time is a float of seconds; only its order is ever read (the
\* sort key), so it is kept as one of two classes: 0 fast, 1 slow
Latency == {0, 1}

\* ===================================================================
\*                       InvidiousAPI (lines 72-240)
\* ===================================================================

\* Outcomes of one health probe GET {url}/api/v1/stats
ProbeOutcomes == {"p200", "pnon200", "pexc"}

\* Outcomes of session.get(url) + response handling in _make_request
HttpOutcomes == {"ok", "ok_null", "ok_badjson", "r429", "r5xx", "r4xx",
                 "timeout", "connerr", "exc"}

\* a probe that resets the count on a 200 and counts every other outcome
ProbeFailReset(fc, po) == IF po = "p200" THEN 0 ELSE fc + 1

\* _initial_health_check, per instance: the failure count after a probe
ProbeFail(fc, po) == IF po = "pexc" THEN fc + 1 ELSE fc

\* a probe that marks the instance available whatever it observed
ProbeAvailAlways(po) == TRUE

\* _initial_health_check, per instance: availability after a probe
ProbeAvail(po) == po = "p200"

\* _initial_health_check, per instance: response_time after a probe
ProbeTime(rt, po, lat) == IF po = "p200" THEN lat ELSE rt

\* what one probe can observe: its outcome and, for a 200, the latency
ProbeResults ==
    {r \in [o : ProbeOutcomes, lat : Latency] : r.o # "p200" => r.lat = 0}

\* results of probing every instance that the failure cap admits
ProbeChoices(fc) ==
    {pr \in [Inst -> ProbeResults] :
        \A i \in Inst : pr[i].o = "pexc" => fc[i] < MaxFail}

\* a sort that looks at response_time alone
KeyLessByTime(fc, rt, i, j) ==
    \/ rt[i] < rt[j]
    \/ rt[i] = rt[j] /\ i < j

\* a sort that looks at failure_count alone
KeyLessByCount(fc, rt, i, j) ==
    \/ fc[i] < fc[j]
    \/ fc[i] = fc[j] /\ i < j

\* sort key (failure_count, response_time); the sort is stable, so list
\* position breaks ties
KeyLess(fc, rt, i, j) ==
    \/ fc[i] < fc[j]
    \/ fc[i] = fc[j] /\ rt[i] < rt[j]
    \/ fc[i] = fc[j] /\ rt[i] = rt[j] /\ i < j

\* available_instances.sort(key=...); return available_instances[0]
BestOf(avail, fc, rt) ==
    CHOOSE i \in avail : \A j \in avail \ {i} : KeyLess(fc, rt, i, j)

\* _get_best_instance: is the recovery health check run?
NeedsRecovery(av) == \A i \in Inst : ~av[i]

\* a selection that also refuses instances with three or more failures
GetBestCircuit(av, fc, rt) ==
    LET available_instances == {i \in Inst : av[i] /\ fc[i] < 3}
    IN IF available_instances = {} THEN None
       ELSE BestOf(available_instances, fc, rt)

\* _get_best_instance: value returned given the flags after recovery
GetBest(av, fc, rt) ==
    LET available_instances == {i \in Inst : av[i]}
    IN IF available_instances = {} THEN None
       ELSE BestOf(available_instances, fc, rt)

\* a success that resets the count
AfterSuccessReset(fc) == 0

\* a success that decrements without the floor of 0
AfterSuccessUnclamped(fc) == fc - 1

\* status 200: instance.failure_count = max(0, instance.failure_count - 1)
AfterSuccess(fc) == IF fc - 1 > 0 THEN fc - 1 ELSE 0

\* a 429 branch without the increment
AfterRateLimitFree(fc) == fc

\* status 429: instance.failure_count += 1
AfterRateLimit(fc) == fc + 1

\* status >= 500: instance.failure_count += 1
AfterServerError(fc) == fc + 1

\* except Timeout / ConnectionError / Exception: instance.failure_count += 1
AfterException(fc) == fc + 1

\* failure_count of the used instance after the attempt's outcome; a 200
\* whose response.json() raises passes the 200 branch and then the
\* except Exception handler
FailAfter(fc, o) ==
    CASE o \in {"ok", "ok_null"} -> AfterSuccess(fc)
      [] o = "ok_badjson" -> AfterException(AfterSuccess(fc))
      [] o = "r429" -> AfterRateLimit(fc)
      [] o = "r5xx" -> AfterServerError(fc)
      [] o = "r4xx" -> fc
      [] o \in {"timeout", "connerr", "exc"} -> AfterException(fc)

\* a Timeout handler that also clears is_available
AvailAfterTimeoutCleared(av) == FALSE

\* except requests.exceptions.Timeout: is_available is not assigned
AvailAfterTimeout(av) == av

\* is_available of the used instance after the attempt's outcome
AvailAfter(av, o) ==
    CASE o \in {"r5xx", "connerr"} -> FALSE
      [] o = "timeout" -> AvailAfterTimeout(av)
      [] OTHER -> av

\* response_time of the used instance after the attempt's outcome
TimeAfter(rt, o, lat) ==
    IF o \in {"ok", "ok_null", "ok_badjson"} THEN lat ELSE rt

\* a loop in which a client error is retried like a server error
ReturnsOnSuccessOnly(o) == o \in {"ok", "ok_null"}

\* does the outcome leave the for loop with a return statement?
Returns(o) == o \in {"ok", "ok_null", "r4xx"}

\* value handed to the caller by a returning outcome
ReturnValue(o) == IF o = "ok" THEN "payload" ELSE "none"

\* a loop bound that is one too large
MoreAttemptsInclusive(a) == a + 1 <= max_retries

\* for attempt in range(self.max_retries): is there another iteration?
MoreAttempts(a) == a + 1 < max_retries

\* a loop that sleeps before every further attempt
BackoffAlways(o, a) == IF a < max_retries - 1 THEN 2 ^ a ELSE 0

\* if attempt < self.max_retries - 1: time.sleep(2 ** attempt + uniform(0, 1))
\* in whole seconds; the 429 and >= 500 branches leave the iteration with
\* continue and the returning branches with return, so only the except
\* handlers fall through to the sleep
Backoff(o, a) ==
    IF o \in {"ok_badjson", "timeout", "connerr", "exc"} /\ a < max_retries - 1
    THEN 2 ^ a
    ELSE 0

\* no health check has run in the last step
NotProbed == [i \in Inst |-> "none"]

\* what one attempt can observe: its outcome and, for a 200, the latency
HttpResults ==
    {r \in [o : HttpOutcomes, lat : Latency] :
        r.o \notin {"ok", "ok_null", "ok_badjson"} => r.lat = 0}

\* results the failure cap admits for an instance with count fc
HttpChoices(fc) ==
    {r \in HttpResults : FailAfter(fc, r.o) > fc => fc < MaxFail}

\* __init__: fields' defaults, then _initial_health_check()
ClientInit ==
    /\ \E pr \in [Inst -> ProbeResults] :
          /\ failure_count = [i \in Inst |-> ProbeFail(0, pr[i].o)]
          /\ is_available = [i \in Inst |-> ProbeAvail(pr[i].o)]
          /\ response_time = [i \in Inst |-> ProbeTime(0, pr[i].o, pr[i].lat)]
          /\ probed = [i \in Inst |-> pr[i].o]
    /\ backoff = 0
    /\ pc = "idle"
    /\ attempt = 0
    /\ instance = None
    /\ outcome = "none"
    /\ result = "none"
    /\ apiCalls = 0
    /\ probeCalls = 0

\* a caller (search_videos, get_video_details) enters _make_request
StartRequest ==
    /\ pc = "idle"
    /\ pc' = "select"
    /\ attempt' = 0
    /\ instance' = None
    /\ outcome' = "none"
    /\ result' = "pending"
    /\ apiCalls' = 0
    /\ probeCalls' = 0
    /\ backoff' = 0
    /\ probed' = NotProbed
    /\ UNCHANGED <<failure_count, is_available, response_time>>
    /\ UNCHANGED <<rateVars, collectVars, fetchVars, scoreVars>>

\* the probe results a selection can observe: those of the recovery
\* health check, or none when some instance is available
RecoveryChoices(av, fc) ==
    IF NeedsRecovery(av)
    THEN ProbeChoices(fc)
    ELSE {[i \in Inst |-> [o |-> "p200", lat |-> 0]]}

\* instance = self._get_best_instance(); if not instance: return None
SelectInstance ==
    /\ pc = "select"
    /\ \E pr \in RecoveryChoices(is_available, failure_count) :
         LET rec == NeedsRecovery(is_available)
             fc == IF rec
                   THEN [i \in Inst |-> ProbeFail(failure_count[i], pr[i].o)]
                   ELSE failure_count
             av == IF rec
                   THEN [i \in Inst |-> ProbeAvail(pr[i].o)]
                   ELSE is_available
             rt == IF rec
                   THEN [i \in Inst |->
                           ProbeTime(response_time[i], pr[i].o, pr[i].lat)]
                   ELSE response_time
             best == GetBest(av, fc, rt)
         IN /\ failure_count' = fc
            /\ is_available' = av
            /\ response_time' = rt
            /\ probeCalls' = IF rec THEN probeCalls + NumInst ELSE probeCalls
            /\ probed' = IF rec THEN [i \in Inst |-> pr[i].o] ELSE NotProbed
            /\ instance' = best
            /\ IF best = None
               THEN /\ pc' = "idle"
                    /\ outcome' = "noinstance"
                    /\ result' = "none"
               ELSE /\ pc' = "http"
                    /\ outcome' = "none"
                    /\ result' = result
    /\ backoff' = 0
    /\ UNCHANGED <<attempt, apiCalls>>
    /\ UNCHANGED <<rateVars, collectVars, fetchVars, scoreVars>>

\* response = self.session.get(url, ...) and the branch taken on it
HttpAttempt ==
    /\ pc = "http"
    /\ \E r \in HttpChoices(failure_count[instance]) :
       LET o == r.o
           lat == r.lat
       IN
         /\ outcome' = o
         /\ apiCalls' = apiCalls + 1
         /\ backoff' = Backoff(o, attempt)
         /\ failure_count' = [failure_count EXCEPT
                                ![instance] = FailAfter(@, o)]
         /\ is_available' = [is_available EXCEPT
                                ![instance] = AvailAfter(@, o)]
         /\ response_time' = [response_time EXCEPT
                                ![instance] = TimeAfter(@, o, lat)]
         /\ IF Returns(o)
            THEN /\ pc' = "idle"
                 /\ result' = ReturnValue(o)
                 /\ attempt' = attempt
            ELSE IF MoreAttempts(attempt)
            THEN /\ pc' = "select"
                 /\ result' = result
                 /\ attempt' = attempt + 1
            ELSE /\ pc' = "idle"
                 /\ result' = "none"
                 /\ attempt' = attempt
    /\ probed' = NotProbed
    /\ UNCHANGED <<instance, probeCalls>>
    /\ UNCHANGED <<rateVars, collectVars, fetchVars, scoreVars>>

\* ===================================================================
\*                 rating loop (lines 314-415, 1468-1621)
\* ===================================================================

\* a data row of raw_links: its video id, whether video_id, url and title
\* are all non-blank, and whether view_count and like_count parse as int
Rows == [id : 1..QLen, complete : BOOLEAN, numeric : BOOLEAN]

\* get_next_raw_video returning None
NoVideo == [id |-> 0, complete |-> FALSE, numeric |-> FALSE]

\* final scores calculate_enhanced_score may return, in hundredths
Scores == {0, Threshold - 1, Threshold, MaxScore}

\* an exception raised between fetch_controlled_comments and the delete
Raise == -1

\* a dequeue that passes over incomplete rows to the first complete one
GetNextComplete(rows, ok) ==
    IF ok /\ \E n \in 1..Len(rows) : rows[n].complete
    THEN rows[CHOOSE n \in 1..Len(rows) :
                 /\ rows[n].complete
                 /\ \A m \in 1..(n - 1) : ~rows[m].complete]
    ELSE NoVideo

\* get_next_raw_video: the first data row if it is complete, else None;
\* a raising sheet call is caught and gives None as well
GetNextRawVideo(rows, ok) ==
    IF ok /\ Len(rows) > 0 /\ rows[1].complete THEN rows[1] ELSE NoVideo

\* delete_raw_video(spreadsheet_id, 2): delete_rows(2) removes the first
\* data row; a raising sheet call is caught and removes nothing
DeleteRawVideo(rows, ok) == IF ok THEN Tail(rows) ELSE rows

\* a write that appends the row even when the sheet call raised
AddToTobeAlways(rows, video, s, ok) ==
    Append(rows, [id |-> video.id, score |-> s])

\* add_to_enhanced_tobe_links: append_row(row_data); a raising sheet call
\* is caught and appends nothing
AddToTobe(rows, video, s, ok) ==
    IF ok THEN Append(rows, [id |-> video.id, score |-> s]) ELSE rows

\* if score >= 6.5
Accepts(s) == s >= Threshold

\* may one more sheet call raise?
StoreChoices == IF storeFails < MaxStoreFail THEN {TRUE, FALSE} ELSE {TRUE}

\* session state defaults; the sheet holds the collected rows
RateInit ==
    /\ raw_links \in {q \in [1..QLen -> Rows] : \A k \in 1..QLen : q[k].id = k}
    /\ tobe_links = <<>>
    /\ is_rating = FALSE
    /\ rpc = "off"
    /\ next_video = NoVideo
    /\ score = 0
    /\ storeFails = 0
    /\ scored = [k \in 1..QLen |-> 0]
    /\ stop_pressed = FALSE
    /\ status = "none"

\* "Start Enhanced Rating" pressed
StartRating ==
    /\ ~is_rating
    /\ rpc = "off"
    /\ is_rating' = TRUE
    /\ rpc' = "dequeue"
    /\ status' = "started"
    /\ UNCHANGED <<raw_links, tobe_links, next_video, score, storeFails, scored,
                   stop_pressed>>
    /\ UNCHANGED <<clientVars, collectVars, fetchVars, scoreVars>>

\* the user clicks "Stop Rating"; the button is enabled while is_rating
\* is set, whatever the loop is doing
PressStop ==
    /\ is_rating
    /\ ~stop_pressed
    /\ stop_pressed' = TRUE
    /\ UNCHANGED <<raw_links, tobe_links, is_rating, rpc, next_video, score,
                   storeFails, scored, status>>
    /\ UNCHANGED <<clientVars, collectVars, fetchVars, scoreVars>>

\* a handler that clears is_rating wherever the loop body stands
StopRatingAnywhere ==
    /\ is_rating
    /\ stop_pressed
    /\ is_rating' = FALSE
    /\ rpc' = "off"
    /\ stop_pressed' = FALSE
    /\ status' = "stopped"
    /\ UNCHANGED <<raw_links, tobe_links, next_video, score, storeFails, scored>>
    /\ UNCHANGED <<clientVars, collectVars, fetchVars, scoreVars>>

\* if st.button("Stop Rating", ...): is_rating = False; st.rerun(). The
\* statement stands before the loop, so it runs when the script is next
\* executed from the top: after the st.rerun() that ends an iteration
StopRating ==
    /\ is_rating
    /\ stop_pressed
    /\ rpc = "dequeue"
    /\ is_rating' = FALSE
    /\ rpc' = "off"
    /\ stop_pressed' = FALSE
    /\ status' = "stopped"
    /\ UNCHANGED <<raw_links, tobe_links, next_video, score, storeFails, scored>>
    /\ UNCHANGED <<clientVars, collectVars, fetchVars, scoreVars>>

\* the script runs from the top with no click pending:
\* next_video = exporter.get_next_raw_video(...); the metrics display
\* int(next_video.get('view_count', 0)) raises into the outer handler,
\* which clears is_rating. A returned row has a non-blank video_id, so the
\* else branch of "if video_id" is never taken.
Dequeue ==
    /\ is_rating
    /\ ~stop_pressed
    /\ rpc = "dequeue"
    /\ \E ok \in BOOLEAN :
         LET v == GetNextRawVideo(raw_links, ok)
         IN IF v = NoVideo \/ ~v.numeric
            THEN /\ is_rating' = FALSE
                 /\ rpc' = "off"
                 /\ next_video' = NoVideo
                 /\ status' = IF v = NoVideo THEN "completed" ELSE "failure"
            ELSE /\ is_rating' = is_rating
                 /\ rpc' = "score"
                 /\ next_video' = v
                 /\ status' = status
    /\ UNCHANGED <<raw_links, tobe_links, score, storeFails, scored,
                   stop_pressed>>
    /\ UNCHANGED <<clientVars, collectVars, fetchVars, scoreVars>>

\* fetch_controlled_comments, calculate_enhanced_score and the breakdown
\* display; an exception goes to the inner handler
ScoreVideo ==
    /\ rpc = "score"
    /\ \E s \in Scores \cup {Raise} :
         IF s = Raise
         THEN /\ rpc' = "excdelete"
              /\ status' = "error"
              /\ UNCHANGED <<score, scored>>
         ELSE /\ rpc' = "delete"
              /\ status' = status
              /\ score' = s
              /\ scored' = [scored EXCEPT ![next_video.id] = @ + 1]
    /\ UNCHANGED <<raw_links, tobe_links, is_rating, next_video, storeFails,
                   stop_pressed>>
    /\ UNCHANGED <<clientVars, collectVars, fetchVars, scoreVars>>

\* exporter.delete_raw_video(spreadsheet_id, next_video['row_number'])
DeleteScored ==
    /\ rpc = "delete"
    /\ \E ok \in StoreChoices :
         /\ raw_links' = DeleteRawVideo(raw_links, ok)
         /\ storeFails' = IF ok THEN storeFails ELSE storeFails + 1
    /\ rpc' = IF Accepts(score) THEN "write" ELSE "dequeue"
    /\ UNCHANGED <<tobe_links, is_rating, next_video, score, scored,
                   stop_pressed, status>>
    /\ UNCHANGED <<clientVars, collectVars, fetchVars, scoreVars>>

\* exporter.add_to_enhanced_tobe_links(spreadsheet_id, next_video, analysis)
WriteAccepted ==
    /\ rpc = "write"
    /\ \E ok \in StoreChoices :
         /\ tobe_links' = AddToTobe(tobe_links, next_video, score, ok)
         /\ storeFails' = IF ok THEN storeFails ELSE storeFails + 1
    /\ rpc' = "dequeue"
    /\ UNCHANGED <<raw_links, is_rating, next_video, score, scored,
                   stop_pressed, status>>
    /\ UNCHANGED <<clientVars, collectVars, fetchVars, scoreVars>>

\* except Exception: "Still remove from raw_links to avoid infinite loop"
DeleteAfterError ==
    /\ rpc = "excdelete"
    /\ \E ok \in StoreChoices :
         /\ raw_links' = DeleteRawVideo(raw_links, ok)
         /\ storeFails' = IF ok THEN storeFails ELSE storeFails + 1
    /\ rpc' = "dequeue"
    /\ UNCHANGED <<tobe_links, is_rating, next_video, score, scored,
                   stop_pressed, status>>
    /\ UNCHANGED <<clientVars, collectVars, fetchVars, scoreVars>>

\* ===================================================================
\*               EnhancedVideoCollector (lines 464-669)
\* ===================================================================

\* invidious_video.get('videoId', '') of a hit without a video id
NoId == 0

\* the arguments category takes
Categories == {"heartwarming", "funny", "traumatic"}

\* words a title or description can contain; a text is kept as the set of
\* these words that occur in it (the code tests substrings of the
\* lower-cased text)
TitleWords == {"funny", "reunion", "rescue", "shocking", "violence"}
DescriptionWords == {"violence", "fake"}

\* a search hit after invidious_video.update(detailed_data): detail says
\* whether get_video_details returned data, broken whether a field has a
\* type that makes the extraction raise (likeCount null)
AllHits ==
    [videoId : {NoId, 1}, detail : {"ok", "none"}, broken : BOOLEAN,
     lengthSeconds : {MinDuration - 1, MinDuration, 600, 601},
     viewCount : {MinViews - 1, MinViews},
     title : SUBSET TitleWords, description : SUBSET DescriptionWords]

\* the hits a search of the collection loop returns
SearchHits ==
    [videoId : {NoId, 1, 2}, detail : {"ok", "none"}, broken : BOOLEAN,
     lengthSeconds : {MinDuration - 1, 300},
     viewCount : {MinViews - 1, 50000},
     title : SUBSET {"funny", "violence"}, description : {{}}]

\* no hit iterated yet
NoHit ==
    [videoId |-> NoId, detail |-> "none", broken |-> FALSE,
     lengthSeconds |-> 0, viewCount |-> 0, title |-> {}, description |-> {}]

\* the empty dict extract_enhanced_metadata returns: every later .get()
\* yields its default
NoData ==
    [video_id |-> NoId, category |-> "", duration_seconds |-> 0,
     view_count |-> 0, title |-> {}, description_preview |-> {},
     content_warning_flags |-> {}]

\* _detect_content_warnings: warning_patterns
WarningPatterns(warning_type) ==
    CASE warning_type = "violence" ->
            {"violence", "violent", "blood", "injury"}
      [] warning_type = "disturbing" -> {"disturbing", "graphic", "shocking"}
      [] warning_type = "adult_content" -> {"explicit", "mature", "adult only"}
      [] warning_type = "fake_content" ->
            {"fake", "staged", "scripted", "actors"}

\* _detect_content_warnings(title_desc, category)
DetectContentWarnings(content_text) ==
    {w \in {"violence", "disturbing", "adult_content", "fake_content"} :
        WarningPatterns(w) \cap content_text # {}}

\* an extraction that gives up when get_video_details returned nothing
ExtractOrSkip(h, cat) ==
    IF h.videoId = NoId \/ h.broken \/ h.detail = "none"
    THEN NoData
    ELSE [video_id |-> h.videoId, category |-> cat,
          duration_seconds |-> h.lengthSeconds,
          view_count |-> h.viewCount,
          title |-> h.title, description_preview |-> h.description,
          content_warning_flags |->
              DetectContentWarnings(h.title \cup h.description)]

\* extract_enhanced_metadata: {} without a video id or when the body
\* raises, else the record built from the hit; content warnings are
\* detected in title + description. "if detailed_data:" only guards the
\* update, so a hit whose detail fetch returned None is extracted from the
\* fields the search gave it
ExtractEnhancedMetadata(h, cat) ==
    IF h.videoId = NoId \/ h.broken
    THEN NoData
    ELSE [video_id |-> h.videoId, category |-> cat,
          duration_seconds |-> h.lengthSeconds,
          view_count |-> h.viewCount,
          title |-> h.title, description_preview |-> h.description,
          content_warning_flags |->
              DetectContentWarnings(h.title \cup h.description)]

\* a duration check with an upper limit of ten minutes
TooShortOrLong(duration) == duration < MinDuration \/ duration > 600

\* if duration < 90: return False
TooShort(duration) == duration < MinDuration

\* a view check that also refuses exactly 10,000 views
LowViewsInclusive(view_count) == view_count <= MinViews

\* if view_count < 10000: return False
LowViews(view_count) == view_count < MinViews

\* a warnings check that refuses nothing
SeriousWarningsNone == {}

\* serious_warnings = ['violence', 'disturbing', 'adult_content']
SeriousWarnings == {"violence", "disturbing", "adult_content"}

\* validate_enhanced_video: category_keywords.get(category, [])
CategoryKeywords(cat) ==
    CASE cat = "heartwarming" ->
            {"heartwarming", "touching", "emotional", "reunion", "surprise"}
      [] cat = "funny" -> {"funny", "comedy", "humor", "hilarious", "joke"}
      [] cat = "traumatic" ->
            {"accident", "disaster", "emergency", "rescue", "shocking"}
      [] OTHER -> {}

\* validate_enhanced_video(video_data, category): the boolean returned
ValidateEnhancedVideo(v, cat) ==
    IF TooShort(v.duration_seconds) THEN FALSE
    ELSE IF LowViews(v.view_count) THEN FALSE
    ELSE IF v.content_warning_flags \cap SeriousWarnings # {} THEN FALSE
    ELSE IF (v.title \cup v.description_preview) \cap CategoryKeywords(cat) = {}
    THEN FALSE
    ELSE TRUE

\* a loop that stops one video too late
TargetReachedLate(n, target) == n > target

\* if len(collected) >= target_count: break
TargetReached(n, target) == n >= target

\* search_videos(query, max_results=target_count * 3): the number of hits
\* returned, all_results[:max_results]
ResultCounts(target) ==
    {n \in 0..MaxResults : n <= target * 3}

\* the collector before collect_videos_enhanced is called
CollectIdle ==
    /\ cpc = "off"
    /\ category = ""
    /\ target_count = 0
    /\ raw_left = 0
    /\ raw_video = NoHit
    /\ video_data = NoData
    /\ is_valid = FALSE
    /\ collected = <<>>

\* collect_videos_enhanced(query, target_count, category) is entered:
\* collected = []
CollectInit ==
    /\ cpc = "search"
    /\ category \in {"funny", "traumatic"}
    /\ target_count \in 0..MaxTarget
    /\ raw_left = 0
    /\ raw_video = NoHit
    /\ video_data = NoData
    /\ is_valid = FALSE
    /\ collected = <<>>

\* raw_results = self.invidious_api.search_videos(...); an exception goes
\* to the outer handler, which logs it and falls through to the return
Search ==
    /\ cpc = "search"
    /\ \/ /\ raw_left' \in ResultCounts(target_count)
          /\ cpc' = "loop"
       \/ /\ raw_left' = 0
          /\ cpc' = "returned"
    /\ UNCHANGED <<category, target_count, raw_video, video_data, is_valid,
                   collected>>
    /\ UNCHANGED <<clientVars, rateVars, fetchVars, scoreVars>>

\* one iteration of for raw_video in raw_results, taken while the target
\* is not reached: extract, skip an empty record, validate, append
ProcessHit ==
    /\ cpc = "loop"
    /\ raw_left > 0
    /\ ~TargetReached(Len(collected), target_count)
    /\ \E h \in SearchHits :
         LET v == ExtractEnhancedMetadata(h, category)
             ok == v # NoData /\ ValidateEnhancedVideo(v, category)
         IN /\ raw_video' = h
            /\ video_data' = v
            /\ is_valid' = ok
            /\ collected' = IF ok THEN Append(collected, v) ELSE collected
    /\ raw_left' = raw_left - 1
    /\ UNCHANGED <<cpc, category, target_count>>
    /\ UNCHANGED <<clientVars, rateVars, fetchVars, scoreVars>>

\* the loop ends (results used up, or break) and collected is returned
ReturnCollected ==
    /\ cpc = "loop"
    /\ raw_left = 0 \/ TargetReached(Len(collected), target_count)
    /\ cpc' = "returned"
    /\ UNCHANGED <<category, target_count, raw_left, raw_video, video_data,
                   is_valid, collected>>
    /\ UNCHANGED <<clientVars, rateVars, fetchVars, scoreVars>>

\* one hit about to go through extraction and validation
ValidateInit ==
    /\ cpc = "extract"
    /\ category \in Categories
    /\ target_count = 1
    /\ raw_left = 0
    /\ raw_video \in AllHits
    /\ video_data = NoData
    /\ is_valid = FALSE
    /\ collected = <<>>

\* video_data = self.extract_enhanced_metadata(raw_video, query, category);
\* if not video_data: continue
ExtractOne ==
    /\ cpc = "extract"
    /\ video_data' = ExtractEnhancedMetadata(raw_video, category)
    /\ cpc' = IF video_data' = NoData THEN "skipped" ELSE "validate"
    /\ UNCHANGED <<category, target_count, raw_left, raw_video, is_valid,
                   collected>>
    /\ UNCHANGED <<clientVars, rateVars, fetchVars, scoreVars>>

\* is_valid, reason = self.validate_enhanced_video(video_data, category)
ValidateOne ==
    /\ cpc = "validate"
    /\ is_valid' = ValidateEnhancedVideo(video_data, category)
    /\ cpc' = "validated"
    /\ UNCHANGED <<category, target_count, raw_left, raw_video, video_data,
                   collected>>
    /\ UNCHANGED <<clientVars, rateVars, fetchVars, scoreVars>>

\* ===================================================================
\*      EnhancedVideoRater.fetch_controlled_comments (lines 703-801)
\* ===================================================================

\* comment texts (textDisplay) the API can return
Texts == {"so touching", "lol funny", "wow"}

\* len(comment_text.strip())
TextLength(text) ==
    CASE text = "so touching" -> 11
      [] text = "lol funny" -> 9
      [] text = "wow" -> 3

\* the elements of a list
Range(seq) == {seq[k] : k \in 1..Len(seq)}

\* lists of at most n comment texts
ItemLists(n) == UNION {[1..k -> Texts] : k \in 0..n}

\* what one requests.get of commentThreads can give when at most n items
\* are asked for (maxResults): a 200 with items and maybe a
\* nextPageToken, another status, or an exception
Responses(n) ==
    {r \in [status : {"200", "other", "raise"}, items : ItemLists(n),
            token : BOOLEAN] :
        r.status # "200" => r.items = <<>> /\ ~r.token}

\* a test that keeps every comment that is long enough
KeepsLongOnly(cs, text) == TextLength(text) > 5

\* if len(comment_text.strip()) > 5 and comment_text not in comments
Keeps(cs, text) == TextLength(text) > 5 /\ text \notin Range(cs)

\* for item in data.get('items', []): the list after the loop; the second
\* and third pass break once the target is reached (capped)
RECURSIVE AddComments(_, _, _, _)
AddComments(cs, items, target, capped) ==
    IF items = <<>> \/ (capped /\ Len(cs) >= target)
    THEN cs
    ELSE AddComments(IF Keeps(cs, Head(items))
                     THEN Append(cs, Head(items))
                     ELSE cs,
                     Tail(items), target, capped)

\* comments[:target_count]
Truncate(cs, target) == SubSeq(cs, 1, IF Len(cs) < target THEN Len(cs) ELSE target)

\* min(a, b)
Min(a, b) == IF a < b THEN a ELSE b

\* the rater before fetch_controlled_comments is called
FetchIdle ==
    /\ fpc = "off"
    /\ fetch_target = 0
    /\ comments = <<>>
    /\ fetched = <<>>
    /\ data_token = "unset"
    /\ fetch_error = FALSE

\* fetch_controlled_comments(video_id, target_count) is entered:
\* comments = []
FetchInit ==
    /\ fpc = "first"
    /\ fetch_target \in 1..MaxWanted
    /\ comments = <<>>
    /\ fetched = <<>>
    /\ data_token = "unset"
    /\ fetch_error = FALSE

\* a requests.get that raises, or a response whose handling raises: the
\* except handler returns 'comments': []
FetchRaises ==
    /\ comments' = <<>>
    /\ fetch_error' = TRUE
    /\ fpc' = "done"
    /\ UNCHANGED <<fetch_target, fetched, data_token>>

\* the handling of a response that did not raise: on a 200, data is bound
\* and its items are added
FetchHandles(r, capped) ==
    /\ comments' = IF r.status = "200"
                   THEN AddComments(comments, r.items, fetch_target, capped)
                   ELSE comments
    /\ fetched' = fetched \o r.items
    /\ data_token' = IF r.status = "200"
                     THEN (IF r.token THEN "token" ELSE "none")
                     ELSE data_token
    /\ UNCHANGED <<fetch_target, fetch_error>>

\* first API call, order relevance, maxResults = min(100, target_count)
FirstPass ==
    /\ fpc = "first"
    /\ \E r \in Responses(Min(MaxItems, fetch_target)) :
         IF r.status = "raise"
         THEN FetchRaises
         ELSE FetchHandles(r, FALSE) /\ fpc' = "second"
    /\ UNCHANGED <<clientVars, rateVars, collectVars, scoreVars>>

\* second API call, order time, if len(comments) < target_count
SecondPass ==
    /\ fpc = "second"
    /\ IF Len(comments) < fetch_target
       THEN \E r \in Responses(Min(MaxItems, fetch_target - Len(comments))) :
              IF r.status = "raise"
              THEN FetchRaises
              ELSE FetchHandles(r, TRUE) /\ fpc' = "third"
       ELSE /\ fpc' = "third"
            /\ UNCHANGED <<fetch_target, comments, fetched, data_token,
                           fetch_error>>
    /\ UNCHANGED <<clientVars, rateVars, collectVars, scoreVars>>

\* third API call with data's nextPageToken, if len(comments) <
\* target_count; data is unbound when no response was a 200, and reading
\* it raises; then comments = comments[:target_count] and the return
ThirdPass ==
    /\ fpc = "third"
    /\ IF Len(comments) < fetch_target /\ data_token = "unset"
       THEN FetchRaises
       ELSE IF Len(comments) < fetch_target /\ data_token = "token"
       THEN \E r \in Responses(Min(MaxItems, fetch_target - Len(comments))) :
              IF r.status = "raise"
              THEN FetchRaises
              ELSE /\ comments' =
                        Truncate(IF r.status = "200"
                                 THEN AddComments(comments, r.items,
                                                  fetch_target, TRUE)
                                 ELSE comments, fetch_target)
                   /\ fetched' = fetched \o r.items
                   /\ data_token' = IF r.status = "200"
                                    THEN (IF r.token THEN "token" ELSE "none")
                                    ELSE data_token
                   /\ fpc' = "done"
                   /\ UNCHANGED <<fetch_target, fetch_error>>
       ELSE /\ comments' = Truncate(comments, fetch_target)
            /\ fpc' = "done"
            /\ UNCHANGED <<fetch_target, fetched, data_token, fetch_error>>
    /\ UNCHANGED <<clientVars, rateVars, collectVars, scoreVars>>

\* ===================================================================
\*   EnhancedVideoRater: analysis and scoring (lines 819-1166)
\* ===================================================================
\* Component values lie in [0, 1] and are kept in thousandths, rounded
\* down; the final score is computed in millionths of a point.

\* max(a, b)
Max(a, b) == IF a > b THEN a ELSE b

\* the categories a raw_links row can carry; "other" stands for any
\* value without an entry in the category tables
RateCategories == {"heartwarming", "funny", "traumatic", "other"}

\* len(comments) of the samples analysed
CommentCounts == {0, 20, 299, 300, 399, 400}

\* what the analysis reads from a comment sample: its length, and how many
\* words of the category's first, second and third word list occur in the
\* joined text; with_keyword is the number of comments that contain a word
\* of the first list
CommentSamples ==
    {c \in [count : CommentCounts, with_keyword : {0, 1, 30},
            primary : {0, 2, 7}, support : {0, 4}, negative : {0, 4}] :
        /\ c.with_keyword <= c.count
        /\ c.with_keyword = 0 <=> c.primary = 0
        /\ c.count = 0 => c.support = 0 /\ c.negative = 0}

\* rows of raw_links as calculate_enhanced_score reads them: subscribers
\* is channel_subscriber_count after parsing, like_dislike_ratio is in
\* thousandths, keyword_matches counts the category keywords in title and
\* description preview, hd says whether a quality of 720p or more is
\* listed, captions counts the caption languages
RatedVideos ==
    { [view_count |-> 0, like_count |-> 0, comment_count |-> 0,
       like_dislike_ratio |-> 0, subscribers |-> 0, keyword_matches |-> 0,
       hd |-> FALSE, captions |-> 0, verified |-> FALSE,
       age_rating |-> "PG-13"],
      [view_count |-> 50000, like_count |-> 500, comment_count |-> 100,
       like_dislike_ratio |-> 900, subscribers |-> 120000,
       keyword_matches |-> 2, hd |-> TRUE, captions |-> 1,
       verified |-> FALSE, age_rating |-> "PG"],
      [view_count |-> 10000, like_count |-> 1000, comment_count |-> 500,
       like_dislike_ratio |-> 1000, subscribers |-> 15000000,
       keyword_matches |-> 7, hd |-> TRUE, captions |-> 3,
       verified |-> TRUE, age_rating |-> "G"] }

\* a hit count that is the number of comments containing a keyword
KeywordHitsPerComment(c) == c.with_keyword

\* positive_count = sum(1 for word in positive_emotions if word in
\* all_text): the number of words of the list that occur somewhere in the
\* joined text
KeywordHits(c) == c.primary

\* min(hits / max(len(comments) * k, 1), 1.0) with k = pct / 100
Ratio(hits, n, pct) ==
    IF n * pct < 100
    THEN Min(hits * 1000, 1000)
    ELSE Min((hits * 100000) \div (n * pct), 1000)

\* an empty sample analysed like a category without word lists
NoAnalysisNeutral ==
    [category_validation |-> 500, emotional_alignment |-> 500,
     authenticity_support |-> 500]

\* the analysis of an empty sample
NoAnalysis ==
    [category_validation |-> 0, emotional_alignment |-> 0,
     authenticity_support |-> 0]

\* analyze_comments_for_category(comments, category)
AnalyzeCommentsForCategory(c, cat) ==
    IF c.count = 0 THEN NoAnalysis
    ELSE CASE cat = "heartwarming" ->
            [category_validation |-> Ratio(KeywordHits(c), c.count, 5),
             emotional_alignment |-> Ratio(KeywordHits(c), c.count, 3),
             authenticity_support |->
                Max(100, Min((c.support * 500) \div Max(c.negative + 1, 1),
                             1000))]
      [] cat = "funny" ->
            [category_validation |-> Ratio(KeywordHits(c), c.count, 3),
             emotional_alignment |-> Ratio(KeywordHits(c), c.count, 2),
             authenticity_support |->
                IF KeywordHits(c) = c.negative THEN 500
                ELSE Min(800, Max(200, (KeywordHits(c) * 400)
                                          \div Max(c.negative + 1, 1)))]
      [] cat = "traumatic" ->
            LET appropriate_total == KeywordHits(c) + c.support
                validation == Ratio(appropriate_total, c.count, 5)
            IN [category_validation |->
                    IF c.negative > appropriate_total
                    THEN (validation * 3) \div 10 ELSE validation,
                emotional_alignment |-> Ratio(KeywordHits(c), c.count, 3),
                authenticity_support |->
                    Min(800, Max(200, (appropriate_total * 300)
                                         \div Max(c.negative + 1, 1)))]
      [] OTHER ->
            [category_validation |-> 500, emotional_alignment |-> 500,
             authenticity_support |-> 500]

\* calculate_engagement_metrics_score: likes and comments per 1000 views,
\* (like_ratio + comment_ratio * 2) / 20 capped at 1, plus 0.2 times the
\* like/dislike ratio, capped at 1
EngagementScore(v) ==
    IF v.view_count = 0 THEN 0
    ELSE Min(Min(((v.like_count + 2 * v.comment_count) * 50000)
                    \div v.view_count, 1000)
             + (v.like_dislike_ratio * 2) \div 10, 1000)

\* calculate_channel_authority_score: channel_thresholds
AuthorityScore(v) ==
    IF v.subscribers >= 10000000 THEN 1000
    ELSE IF v.subscribers >= 1000000 THEN 800
    ELSE IF v.subscribers >= 100000 THEN 600
    ELSE IF v.subscribers >= 10000 THEN 400
    ELSE IF v.subscribers >= 1000 THEN 200
    ELSE 100

\* content_match_score = min(keyword_matches * 0.2, 1.0)
ContentMatchScore(v) == Min(v.keyword_matches * 200, 1000)

\* calculate_technical_quality_score
TechnicalScore(v) ==
    Min((IF v.hd THEN 500 ELSE 0)
        + (IF v.captions >= 3 THEN 300
           ELSE IF v.captions >= 1 THEN 200 ELSE 0)
        + (IF v.verified THEN 100 ELSE 0)
        + (IF v.age_rating \in {"G", "PG"} THEN 100 ELSE 0), 1000)

\* category_base_scores.get(category, 3.0), in millionths
BaseScore(cat) ==
    CASE cat = "heartwarming" -> 3000000
      [] cat = "funny" -> 2500000
      [] cat = "traumatic" -> 4000000
      [] OTHER -> 3000000

\* weighted_score with scoring_weights 0.60, 0.15, 0.05, 0.15, 0.05 and
\* comment_score = 0.4 validation + 0.3 emotional + 0.3 authenticity, in
\* millionths
WeightedScore(a, v) ==
    60 * (4 * a.category_validation + 3 * a.emotional_alignment
          + 3 * a.authenticity_support)
    + 10 * (15 * EngagementScore(v) + 5 * AuthorityScore(v)
            + 15 * ContentMatchScore(v) + 5 * TechnicalScore(v))

\* final_score before the cap: base + weighted * 7.0, plus 1.0 if
\* category_validation > 0.8, times 0.6 if authenticity_support < 0.2
UncappedScore(a, v, cat) ==
    LET scaled == BaseScore(cat) + 7 * WeightedScore(a, v)
        bonus == IF a.category_validation > 800
                 THEN scaled + 1000000 ELSE scaled
    IN IF a.authenticity_support < 200 THEN (bonus * 6) \div 10 ELSE bonus

\* a return without the cap
CappedNot(s) == s

\* 'final_score': min(final_score, 10.0), in millionths
Capped(s) == Min(s, MaxScore * 10000)

\* calculate_enhanced_score: final_score in hundredths, rounded down
FinalScore(a, v, cat) == Capped(UncappedScore(a, v, cat)) \div 10000

\* a confidence whose second step replaces the first instead of adding to it
ConfidenceElif(a, c) ==
    Min(300 + (IF c.count >= 400 THEN 200
               ELSE IF c.count >= 300 THEN 300 ELSE 0)
            + (IF a.category_validation > 600 THEN 200 ELSE 0), 1000)

\* calculate_enhanced_score: confidence, in thousandths
Confidence(a, c) ==
    Min(300 + (IF c.count >= 300 THEN 300 ELSE 0)
            + (IF c.count >= 400 THEN 200 ELSE 0)
            + (IF a.category_validation > 600 THEN 200 ELSE 0), 1000)

\* the rater before calculate_enhanced_score is called
ScoreIdle ==
    /\ spc = "off"
    /\ rate_category = ""
    /\ comments_data = [count |-> 0, with_keyword |-> 0, primary |-> 0,
                        support |-> 0, negative |-> 0]
    /\ rated_video = CHOOSE v \in RatedVideos : v.view_count = 0
    /\ analysis = NoAnalysis
    /\ final_score = 0
    /\ confidence = 0

\* calculate_enhanced_score(video_data, comments_data, category) is entered
ScoreInit ==
    /\ spc = "analyse"
    /\ rate_category \in RateCategories
    /\ comments_data \in CommentSamples
    /\ rated_video \in RatedVideos
    /\ analysis = NoAnalysis
    /\ final_score = 0
    /\ confidence = 0

\* comments_analysis = self.analyze_comments_for_category(...)
AnalyzeComments ==
    /\ spc = "analyse"
    /\ analysis' = AnalyzeCommentsForCategory(comments_data, rate_category)
    /\ spc' = "weigh"
    /\ UNCHANGED <<rate_category, comments_data, rated_video, final_score,
                   confidence>>
    /\ UNCHANGED <<clientVars, rateVars, collectVars, fetchVars>>

\* the components, the weighted sum, bonus and penalty, the confidence
\* and the returned dict
CalculateScore ==
    /\ spc = "weigh"
    /\ final_score' = FinalScore(analysis, rated_video, rate_category)
    /\ confidence' = Confidence(analysis, comments_data)
    /\ spc' = "scored"
    /\ UNCHANGED <<rate_category, comments_data, rated_video, analysis>>
    /\ UNCHANGED <<clientVars, rateVars, collectVars, fetchVars>>

\* ===================================================================
\*                          specifications
\* ===================================================================

\* the rating variables at rest, for the client's specification
RateIdle ==
    /\ raw_links = <<>>
    /\ tobe_links = <<>>
    /\ is_rating = FALSE
    /\ rpc = "off"
    /\ next_video = NoVideo
    /\ score = 0
    /\ storeFails = 0
    /\ scored = <<>>
    /\ stop_pressed = FALSE
    /\ status = "none"

Init == ClientInit /\ RateIdle /\ CollectIdle /\ FetchIdle /\ ScoreIdle

Next == StartRequest \/ SelectInstance \/ HttpAttempt

Spec == Init /\ [][Next]_vars

\* the client right after construction with every probe answered 200
ClientIdle ==
    /\ failure_count = [i \in Inst |-> 0]
    /\ is_available = [i \in Inst |-> TRUE]
    /\ response_time = [i \in Inst |-> 0]
    /\ pc = "idle"
    /\ attempt = 0
    /\ instance = None
    /\ outcome = "none"
    /\ result = "none"
    /\ apiCalls = 0
    /\ probeCalls = 0
    /\ backoff = 0
    /\ probed = [i \in Inst |-> "p200"]

RateSpecInit ==
    ClientIdle /\ RateInit /\ CollectIdle /\ FetchIdle /\ ScoreIdle

RateNext ==
    \/ StartRating
    \/ PressStop
    \/ StopRating
    \/ Dequeue
    \/ ScoreVideo
    \/ DeleteScored
    \/ WriteAccepted
    \/ DeleteAfterError

RateSpec == RateSpecInit /\ [][RateNext]_vars

ValidateSpecInit ==
    ClientIdle /\ RateIdle /\ ValidateInit /\ FetchIdle /\ ScoreIdle

ValidateNext == ExtractOne \/ ValidateOne

ValidateSpec == ValidateSpecInit /\ [][ValidateNext]_vars

CollectSpecInit ==
    ClientIdle /\ RateIdle /\ CollectInit /\ FetchIdle /\ ScoreIdle

CollectNext == Search \/ ProcessHit \/ ReturnCollected

CollectSpec == CollectSpecInit /\ [][CollectNext]_vars

FetchSpecInit ==
    ClientIdle /\ RateIdle /\ CollectIdle /\ FetchInit /\ ScoreIdle

FetchNext == FirstPass \/ SecondPass \/ ThirdPass

FetchSpec == FetchSpecInit /\ [][FetchNext]_vars

ScoreSpecInit ==
    ClientIdle /\ RateIdle /\ CollectIdle /\ FetchIdle /\ ScoreInit

ScoreNext == AnalyzeComments \/ CalculateScore

ScoreSpec == ScoreSpecInit /\ [][ScoreNext]_vars

\* ===================================================================
\*                     properties of the client (Spec)
\* ===================================================================

\* outcomes of an attempt that did not get a usable 200 answer
FailedOutcomes == {"ok_badjson", "r429", "r5xx", "timeout", "connerr", "exc"}

\* the step taken is the HTTP call of an attempt, ending in outcome o
HttpStep(o) == pc = "http" /\ outcome' = o

\* the step taken is a selection that ran the recovery health check
RecoveryStep == pc = "select" /\ NeedsRecovery(is_available)

\* the state right after _get_best_instance returned
Selected == pc = "http" \/ outcome = "noinstance"

\* C1 as stated: an instance's failure count only increases on a failed
\* attempt (request or probe) against that instance, and it is exactly 0
\* right after a successful request to it.
C1_ResetToZero ==
    [][ /\ \A i \in Inst : failure_count'[i] > failure_count[i] =>
              \/ pc = "http" /\ instance = i /\ outcome' \in FailedOutcomes
              \/ RecoveryStep /\ ~is_available'[i]
        /\ (HttpStep("ok") \/ HttpStep("ok_null")) =>
              failure_count'[instance] = 0 ]_vars

\* C1 as amended: an instance's failure count only increases, by exactly
\* one, in a step that is a failed request attempt or a failed recovery
\* probe against that instance; a request answered 200 with a parseable
\* body leaves it at max(0, previous - 1), so it is 0 after a success only
\* when it was at most 1 before.
C1_DecrementOnSuccess ==
    [][ /\ \A i \in Inst : failure_count'[i] > failure_count[i] =>
              /\ failure_count'[i] = failure_count[i] + 1
              /\ \/ pc = "http" /\ instance = i /\ outcome' \in FailedOutcomes
                 \/ RecoveryStep /\ ~is_available'[i]
        /\ (HttpStep("ok") \/ HttpStep("ok_null")) =>
              /\ failure_count[instance] <= 1 => failure_count'[instance] = 0
              /\ failure_count[instance] > 1 =>
                    failure_count'[instance] = failure_count[instance] - 1 ]_vars

\* C1 witness: a request has just succeeded on an instance whose count is
\* still positive (it was at least 2 before the success).
C1_Witness ==
    /\ pc = "idle" /\ outcome = "ok" /\ result = "payload"
    /\ failure_count[instance] >= 1

\* C2 as stated: an attempt answered 429 changes neither the failure count
\* nor the availability of the instance that answered.
C2_NoChangeOn429 ==
    [][ HttpStep("r429") =>
          /\ failure_count'[instance] = failure_count[instance]
          /\ is_available'[instance] = is_available[instance] ]_vars

\* C2 as amended: an attempt answered 429 raises the failure count of the
\* instance that answered by exactly one, leaves every other count alone
\* and changes no instance's availability.
C2_IncrementOn429 ==
    [][ HttpStep("r429") =>
          /\ failure_count'[instance] = failure_count[instance] + 1
          /\ \A j \in Inst \ {instance} : failure_count'[j] = failure_count[j]
          /\ is_available' = is_available ]_vars

\* C2 witness: an attempt has just been answered 429 and the instance is
\* still available with a count the 429 raised.
C2_Witness ==
    /\ outcome = "r429" /\ is_available[instance]
    /\ failure_count[instance] >= 1

\* C3 as stated: the selection never returns an instance with failure
\* count >= 3 while some other instance has a count < 3.
C3_NeverThreeWhileOtherBelow ==
    Selected /\ instance # None =>
        ~(/\ failure_count[instance] >= 3
          /\ \E j \in Inst \ {instance} : failure_count[j] < 3)

\* C3 as amended: the selection never returns an instance with failure
\* count >= 3 while some other instance that is marked available has a
\* count < 3.
C3_NeverThreeWhileAvailableBelow ==
    Selected /\ instance # None =>
        ~(/\ failure_count[instance] >= 3
          /\ \E j \in Inst \ {instance} :
                is_available[j] /\ failure_count[j] < 3)

\* C3 witness: the selection had an available instance with count >= 3 to
\* choose from and returned another one, whose count is below 3.
C3_Witness ==
    /\ pc = "http" /\ failure_count[instance] < 3
    /\ \E j \in Inst \ {instance} :
          is_available[j] /\ failure_count[j] >= 3

\* C4 as stated: the selection always returns an instance.
C4_AlwaysAnInstance == Selected => instance # None

\* C4 as amended: the selection returns an instance exactly when at least
\* one instance is marked available after the recovery health check, and
\* then it is an available instance with the lowest failure count, also
\* when every count is 3 or more; when no instance is available after the
\* recovery check it returns None and the request returns None.
C4_InstanceIffAvailable ==
    Selected =>
        /\ (instance = None) <=> (\A i \in Inst : ~is_available[i])
        /\ instance = None => pc = "idle" /\ result = "none"
        /\ instance # None =>
              /\ is_available[instance]
              /\ \A j \in Inst : is_available[j] =>
                    failure_count[instance] <= failure_count[j]

\* C4 witness: every instance has a failure count of 3 or more and the
\* selection has returned an instance.
C4_Witness ==
    /\ pc = "http" /\ instance # None
    /\ \A i \in Inst : failure_count[i] >= 3

\* C5 as stated: a logical request issues at most max_retries HTTP calls,
\* health probes included.
C5_AllCallsBounded == apiCalls + probeCalls <= max_retries

\* C5 as amended: a logical request issues at most max_retries HTTP calls
\* to the API endpoint; the health probes of recovery checks come on top,
\* one per instance for each attempt at most.
C5_ApiCallsBounded ==
    /\ apiCalls <= max_retries
    /\ apiCalls <= attempt + 1
    /\ probeCalls <= max_retries * NumInst

\* C5 witness: a request has used all max_retries API calls and has run a
\* recovery health check as well.
C5_Witness == apiCalls = max_retries /\ probeCalls > 0

\* C6 as stated: an attempt ending in a status >= 500, a connection error
\* or a timeout marks the instance used unavailable, and the request goes
\* on to the next attempt while one remains.
C6_FailureMarksUnavailable ==
    [][ (HttpStep("r5xx") \/ HttpStep("connerr") \/ HttpStep("timeout")) =>
          /\ ~is_available'[instance]
          /\ attempt + 1 < max_retries => pc' = "select" ]_vars

\* C6 as amended: an attempt ending in a status >= 500 or a connection
\* error marks the instance used unavailable; one ending in a timeout
\* leaves its availability as it was; each raises the instance's failure
\* count by one, and the request goes on to the next attempt while one
\* remains and returns None after the last.
C6_ServerOrConnectionMarksUnavailable ==
    [][ (HttpStep("r5xx") \/ HttpStep("connerr") \/ HttpStep("timeout")) =>
          /\ failure_count'[instance] = failure_count[instance] + 1
          /\ outcome' \in {"r5xx", "connerr"} => ~is_available'[instance]
          /\ outcome' = "timeout" =>
                is_available'[instance] = is_available[instance]
          /\ attempt + 1 < max_retries =>
                pc' = "select" /\ attempt' = attempt + 1
          /\ attempt + 1 >= max_retries =>
                pc' = "idle" /\ result' = "none" ]_vars

\* C6 witness: an attempt has just timed out, the instance is still marked
\* available and the request is about to select for its next attempt.
C6_Witness ==
    /\ outcome = "timeout" /\ pc = "select"
    /\ is_available[instance]

\* C7: an attempt answered with a 4xx status other than 429 ends the
\* request at once with a failure result, also when attempts remain, and
\* changes no instance's failure count or availability.
C7_ClientErrorReturns ==
    [][ HttpStep("r4xx") =>
          /\ pc' = "idle" /\ result' = "none"
          /\ attempt' = attempt
          /\ failure_count' = failure_count
          /\ is_available' = is_available ]_vars

\* C7 witness: a request has ended on a 4xx answer to its first attempt.
C7_Witness ==
    /\ outcome = "r4xx" /\ pc = "idle" /\ result = "none"
    /\ attempt = 0 /\ apiCalls = 1

\* C8: a 200 answer whose body does not parse or is JSON null leaves the
\* instance's failure count higher than it was before the attempt, and the
\* request goes on to the next attempt while one remains.
C8_MalformedBodyIsFailure ==
    [][ (HttpStep("ok_badjson") \/ HttpStep("ok_null")) =>
          /\ failure_count'[instance] > failure_count[instance]
          /\ attempt + 1 < max_retries => pc' = "select" ]_vars

\* C18 as stated: every further attempt of a request is preceded by a
\* wait, also the attempt that directly follows a 429 or a 5xx answer.
C18_WaitBeforeEveryAttempt ==
    [][ pc = "http" /\ pc' = "select" => backoff' > 0 ]_vars

\* C18 as amended: the client has no rate limiter. The attempt that
\* follows a 429 or a status >= 500 is issued with no wait at all; the
\* attempt that follows a timeout, a connection error or another exception
\* (an unparseable 200 body included) is preceded by a backoff sleep of at
\* least 2^attempt seconds; nothing is slept after the last attempt.
C18_BackoffAfterExceptionsOnly ==
    [][ pc = "http" =>
          /\ outcome' \in {"r429", "r5xx"} => backoff' = 0
          /\ pc' = "select" /\ outcome' \notin {"r429", "r5xx"} =>
                backoff' = 2 ^ attempt
          /\ pc' = "idle" => backoff' = 0 ]_vars

\* C18 witness: the second attempt of a request is about to start right
\* after a 429 answer and nothing was slept in between.
C18_Witness ==
    /\ pc = "select" /\ outcome = "r429" /\ attempt = 1
    /\ backoff = 0 /\ apiCalls = 1

\* C19 as stated: a probe answered 200 marks the instance available and
\* sets its failure count to 0; any other probe outcome marks it
\* unavailable and raises its failure count by one.
C19_ProbeResetsOrCounts ==
    [][ RecoveryStep => \A i \in Inst :
          /\ probed'[i] = "p200" =>
                is_available'[i] /\ failure_count'[i] = 0
          /\ probed'[i] # "p200" =>
                /\ ~is_available'[i]
                /\ failure_count'[i] = failure_count[i] + 1 ]_vars

\* C19 as amended: a probe answered 200 marks the instance available and
\* leaves its failure count as it was; a probe answered with another
\* status marks it unavailable and leaves the count as it was; a probe
\* that raises (timeout, connection error) marks it unavailable and raises
\* the count by one.
C19_ProbeCountsExceptionsOnly ==
    [][ RecoveryStep => \A i \in Inst :
          /\ probed'[i] \in ProbeOutcomes
          /\ is_available'[i] <=> probed'[i] = "p200"
          /\ probed'[i] \in {"p200", "pnon200"} =>
                failure_count'[i] = failure_count[i]
          /\ probed'[i] = "pexc" =>
                failure_count'[i] = failure_count[i] + 1 ]_vars

\* C19 witness: the recovery health check has just got a 200 from an
\* instance whose failure count is still positive, and a non-200 status
\* from another one.
C19_Witness ==
    \E i, j \in Inst :
        /\ probed[i] = "p200" /\ is_available[i] /\ failure_count[i] >= 1
        /\ probed[j] = "pnon200" /\ ~is_available[j]

\* C20: an instance that is excluded from selection (not marked available)
\* becomes eligible again only in a step that probes it and gets a 200; no
\* request outcome and no further attempt marks it available, and the
\* selection never returns an instance that is not marked available.
C20_ReentryOnlyAfterProbe ==
    [][ /\ \A i \in Inst : ~is_available[i] /\ is_available'[i] =>
              RecoveryStep /\ probed'[i] = "p200"
        /\ pc = "http" => \A i \in Inst : is_available'[i] => is_available[i]
        /\ pc = "select" /\ pc' = "http" => is_available'[instance'] ]_vars

\* C20 witness: an instance that a request outcome had excluded has been
\* probed with a 200 by the recovery check and has been selected again.
C20_Witness ==
    /\ pc = "http" /\ attempt >= 1
    /\ probed[instance] = "p200" /\ failure_count[instance] >= 1

\* C21: the instance the selection returns is marked available, no
\* available instance has a lower failure count, and no available instance
\* with the same failure count has a lower response_time.
C21_LowestCountThenLatency ==
    pc = "http" =>
        /\ is_available[instance]
        /\ \A j \in Inst : is_available[j] =>
              \/ failure_count[instance] < failure_count[j]
              \/ /\ failure_count[instance] = failure_count[j]
                 /\ response_time[instance] <= response_time[j]

\* C21 witness: two available instances have the same failure count and
\* the selection has returned the one later in the list, which is the
\* faster of the two.
C21_Witness ==
    /\ pc = "http"
    /\ \E j \in Inst :
          /\ j < instance /\ is_available[j]
          /\ failure_count[j] = failure_count[instance]
          /\ response_time[instance] < response_time[j]

\* C30: whatever probes and attempts were made, every instance's failure
\* count is at least 0, and the instances are those of the list built at
\* construction: each has its three fields and no other instance has any.
C30_CountsNonNegativeInstancesFixed ==
    /\ \A i \in Inst : failure_count[i] >= 0
    /\ DOMAIN failure_count = Inst
    /\ DOMAIN is_available = Inst
    /\ DOMAIN response_time = Inst
    /\ instance \in Inst \cup {None}

\* C30 witness: after recovery probes and several attempts of one request,
\* an attempt has succeeded on an instance whose count is 0 while another
\* instance carries failures.
C30_Witness ==
    /\ pc = "idle" /\ outcome = "ok"
    /\ probeCalls > 0 /\ apiCalls > 1
    /\ failure_count[instance] = 0
    /\ \E j \in Inst : failure_count[j] > 0

\* ===================================================================
\*                 properties of the rating loop (RateSpec)
\* ===================================================================

\* number of rows of a sheet that carry video id k
RowsOf(sheet, k) == Cardinality({n \in 1..Len(sheet) : sheet[n].id = k})

\* the step taken is the loop body leaving position p
RateStep(p) == rpc = p /\ rpc' # p

\* C9: every queued video is scored at most once and written to
\* tobe_links at most once, whatever store calls fail.
C9_ConsumedOnce ==
    \A k \in 1..QLen : scored[k] <= 1 /\ RowsOf(tobe_links, k) <= 1

\* C10: the dequeued video is written to tobe_links exactly when its score
\* is >= 6.5; a video scoring less is removed from raw_links and written
\* nowhere.
C10_WrittenIffAtLeastThreshold ==
    [][ /\ RateStep("delete") /\ score >= Threshold => rpc' = "write"
        /\ RateStep("write") =>
              tobe_links' = Append(tobe_links,
                                   [id |-> next_video.id, score |-> score])
        /\ RateStep("delete") /\ score < Threshold =>
              /\ raw_links' = Tail(raw_links)
              /\ tobe_links' = tobe_links
              /\ rpc' # "write"
        /\ tobe_links' # tobe_links => rpc = "write" /\ score >= Threshold
      ]_vars

\* C22: the removal from raw_links comes before the write to tobe_links
\* and is not undone. The write is only reached from the removal, which
\* leaves tobe_links alone; the write leaves raw_links alone and hands
\* control to the next dequeue with is_rating unchanged, whether it failed
\* or not. A write that fails appends nothing: a record the removal took
\* out of raw_links stays out of it, and tobe_links holds no row for it
\* when this was its first rating.
C22_FailedWriteLosesRecord ==
    [][ /\ rpc # "write" /\ rpc' = "write" =>
              /\ rpc = "delete"
              /\ tobe_links' = tobe_links
              /\ raw_links' \in {raw_links, Tail(raw_links)}
        /\ rpc = "write" => raw_links' = raw_links
        /\ RateStep("write") =>
              /\ rpc' = "dequeue"
              /\ is_rating' = is_rating
        /\ rpc = "write" /\ storeFails' > storeFails =>
              /\ tobe_links' = tobe_links
              /\ RowsOf(raw_links, next_video.id) = 0 =>
                    RowsOf(raw_links', next_video.id) = 0
              /\ scored[next_video.id] = 1 =>
                    RowsOf(tobe_links', next_video.id) = 0
      ]_vars

\* C22 witness: a row scored 6.5 or more was removed from raw_links, the
\* write to tobe_links was the one store call that failed, and the loop
\* is at the next dequeue with the row in neither sheet.
C22_Witness ==
    /\ is_rating /\ rpc = "dequeue" /\ next_video # NoVideo
    /\ score >= Threshold /\ scored[next_video.id] = 1 /\ storeFails = 1
    /\ RowsOf(raw_links, next_video.id) = 0
    /\ RowsOf(tobe_links, next_video.id) = 0

C27_IterationDeletesDequeuedRow ==
    [][ /\ RateStep("delete") \/ RateStep("excdelete") =>
              /\ Len(raw_links') = Len(raw_links) - 1
              /\ RowsOf(raw_links, next_video.id) = 1
              /\ RowsOf(raw_links', next_video.id) = 0
        /\ raw_links' # raw_links => rpc \in {"delete", "excdelete"}
      ]_vars

\* C28: the dequeue looks at the first data row only. The loop goes on to
\* score a row only if that row is the first one and is complete; when the
\* first row is incomplete (or there is none) the loop ends with the
\* status "completed" and raw_links as it was, whatever rows follow. A row
\* that stands behind an incomplete row stays in raw_links and is never
\* scored or written to tobe_links.
C28_HeadRowOnly ==
    [][ /\ RateStep("dequeue") /\ ~stop_pressed =>
              /\ rpc' = "score" =>
                    /\ Len(raw_links) > 0 /\ raw_links[1].complete
                    /\ next_video' = raw_links[1]
              /\ Len(raw_links) = 0 \/ ~raw_links[1].complete =>
                    /\ ~is_rating' /\ rpc' = "off" /\ status' = "completed"
                    /\ next_video' = NoVideo
                    /\ raw_links' = raw_links
        /\ \A k \in 1..QLen :
              (\E n \in 1..Len(raw_links') :
                    raw_links'[n].id < k /\ ~raw_links'[n].complete)
              => /\ scored'[k] = 0
                 /\ RowsOf(raw_links', k) = 1
                 /\ RowsOf(tobe_links', k) = 0
      ]_vars

\* C28 witness: the loop has ended with "completed" on an incomplete first
\* row while a complete row that was never scored stands behind it.
C28_Witness ==
    /\ ~is_rating /\ rpc = "off" /\ status = "completed"
    /\ Len(raw_links) = 2
    /\ ~raw_links[1].complete /\ raw_links[2].complete
    /\ scored[raw_links[2].id] = 0

\* ===================================================================
\*        properties of the collector (ValidateSpec, CollectSpec)
\* ===================================================================

\* the record under validation carries no serious content warning
NoSeriousWarning ==
    video_data.content_warning_flags
        \cap {"violence", "disturbing", "adult_content"} = {}

\* title or description preview of the record under validation contains a
\* keyword of the requested category
HasKeyword ==
    (video_data.title \cup video_data.description_preview)
        \cap CategoryKeywords(category) # {}

\* C11 as stated: with every other criterion satisfied, validation accepts
\* exactly the durations in [90, 600]: 89 and 601 are rejected, 90 and 600
\* are accepted.
C11_DurationWindow ==
    cpc = "validated" /\ video_data.view_count >= 10000
        /\ NoSeriousWarning /\ HasKeyword =>
            (is_valid <=> video_data.duration_seconds \in 90..600)

\* C11 as amended: with every other criterion satisfied, validation accepts
\* exactly the durations of 90 seconds or more; there is no upper limit:
\* 89 is rejected, 90, 600 and 601 are accepted.
C11_DurationFloorOnly ==
    cpc = "validated" /\ video_data.view_count >= 10000
        /\ NoSeriousWarning /\ HasKeyword =>
            (is_valid <=> video_data.duration_seconds >= 90)

\* C11 witness: a record of 601 seconds that meets every other criterion
\* has been validated and accepted.
C11_Witness ==
    /\ cpc = "validated" /\ video_data.duration_seconds = 601
    /\ is_valid

\* C12: with every other criterion satisfied, validation accepts exactly
\* the view counts of 10,000 or more: 9,999 is rejected, 10,000 accepted.
C12_ViewFloorInclusive ==
    cpc = "validated" /\ video_data.duration_seconds >= 90
        /\ NoSeriousWarning /\ HasKeyword =>
            /\ is_valid <=> video_data.view_count >= 10000
            /\ video_data.view_count = 9999 => ~is_valid
            /\ video_data.view_count = 10000 => is_valid

\* C12 witness: a record with exactly 10,000 views that meets every other
\* criterion has been validated and accepted.
C12_Witness ==
    /\ cpc = "validated" /\ video_data.view_count = 10000
    /\ video_data.duration_seconds = 90
    /\ is_valid

\* the step taken is one iteration of the collection loop
CollectStep == cpc = "loop" /\ raw_left' = raw_left - 1

\* the step appends the record of the hit just iterated, with the
\* requested category in its category field
AppendsHit ==
    /\ Len(collected') = Len(collected) + 1
    /\ collected'[Len(collected')].video_id = raw_video'.videoId
    /\ collected'[Len(collected')].category = category

\* C13 as stated: a hit with a duration in [90, 600], at least 10,000
\* views and a keyword of the requested category in its title is
\* collected with the requested category; nothing else about it can cause
\* its rejection.
C13_QualifyingHitCollected ==
    [][ CollectStep
          /\ raw_video'.lengthSeconds \in 90..600
          /\ raw_video'.viewCount >= 10000
          /\ raw_video'.title \cap CategoryKeywords(category) # {}
        => AppendsHit ]_vars

\* C13 as amended: a hit iterated by the collection loop is collected,
\* with the requested category in its category field, exactly when it has
\* a video id, its metadata extraction does not fail, its duration is at
\* least 90 seconds, it has at least 10,000 views, its title or
\* description contains a keyword of the requested category, and its title
\* and description contain no term of the violence, disturbing or
\* adult-content warning lists; such a term, a missing id or a failed
\* extraction causes its rejection.
C13_CollectedIffCleanAndQualifying ==
    [][ CollectStep =>
          LET h == raw_video'
              text == h.title \cup h.description
              clean == text \cap {"violence", "violent", "blood", "injury",
                                  "disturbing", "graphic", "shocking",
                                  "explicit", "mature", "adult only"} = {}
              qualifies ==
                  /\ h.videoId # NoId /\ ~h.broken
                  /\ h.lengthSeconds >= 90
                  /\ h.viewCount >= 10000
                  /\ text \cap CategoryKeywords(category) # {}
                  /\ clean
          IN /\ qualifies => AppendsHit
             /\ ~qualifies => collected' = collected ]_vars

\* C13 witness: a hit of 300 seconds with 50,000 views and "funny" in its
\* title has been collected for the category funny.
C13_Witness ==
    /\ category = "funny" /\ is_valid
    /\ raw_video.lengthSeconds = 300 /\ raw_video.viewCount = 50000
    /\ "funny" \in raw_video.title
    /\ Len(collected) > 0
    /\ collected[Len(collected)].video_id = raw_video.videoId
    /\ collected[Len(collected)].category = "funny"

\* C23 as stated: a hit whose detail fetch returned no payload is skipped:
\* it is not validated and not added to the collected list, and the loop
\* goes on.
C23_FailedDetailSkipped ==
    [][ CollectStep /\ raw_video'.detail = "none" =>
          /\ is_valid' = FALSE
          /\ collected' = collected
          /\ cpc' = "loop" ]_vars

\* C23 as amended: a hit whose detail fetch returned no payload is not
\* skipped for that: when it has a video id and its extraction does not
\* raise, the record is built from the fields the hit has, it is validated,
\* and it is added to the collected list exactly when it is valid. A hit
\* is skipped unvalidated only when it has no video id or its extraction
\* raises. Either way the loop goes on.
C23_FailedDetailStillValidated ==
    [][ CollectStep /\ raw_video'.detail = "none" =>
          LET h == raw_video'
          IN /\ h.videoId # NoId /\ ~h.broken =>
                   /\ video_data'.video_id = h.videoId
                   /\ video_data'.duration_seconds = h.lengthSeconds
                   /\ video_data'.view_count = h.viewCount
                   /\ video_data'.title = h.title
                   /\ is_valid' = ValidateEnhancedVideo(video_data', category)
                   /\ is_valid' => AppendsHit
                   /\ ~is_valid' => collected' = collected
             /\ h.videoId = NoId \/ h.broken =>
                   /\ video_data' = NoData
                   /\ is_valid' = FALSE
                   /\ collected' = collected
             /\ cpc' = "loop" ]_vars

\* C23 witness: a hit whose detail fetch returned no payload has been
\* validated and is the last record of the collected list.
C23_Witness ==
    /\ cpc = "loop" /\ raw_video.detail = "none" /\ is_valid
    /\ Len(collected) > 0
    /\ collected[Len(collected)].video_id = raw_video.videoId

\* C24: the collected list never holds two records with the same video
\* id: a hit whose id an earlier hit of the run already had is not
\* extracted, validated or appended again.
C24_NoDuplicateIds ==
    \A m, n \in 1..Len(collected) :
        m # n => collected[m].video_id # collected[n].video_id

\* C17: the list collect_videos_enhanced builds and returns holds at most
\* target_count records, each of which passed validation for the requested
\* category; a failing search or a failing hit ends in the normal return
\* of what was collected, never in an error.
C17_AtMostTargetValidated ==
    /\ Len(collected) <= target_count
    /\ \A k \in 1..Len(collected) :
          /\ collected[k] # NoData
          /\ ValidateEnhancedVideo(collected[k], category)
    /\ cpc \in {"search", "loop", "returned"}
    /\ cpc = "loop" /\ raw_left = 0 => ENABLED ReturnCollected

\* C17 witness: the collection has returned a full list of target_count
\* records while search hits were still left.
C17_Witness ==
    /\ cpc = "returned" /\ target_count = MaxTarget
    /\ Len(collected) = target_count /\ raw_left > 0

\* ===================================================================
\*            properties of the comment fetch (FetchSpec)
\* ===================================================================

\* the texts of a list that are longer than five characters
RECURSIVE LongTexts(_)
LongTexts(seq) ==
    IF seq = <<>> THEN <<>>
    ELSE IF TextLength(Head(seq)) > 5
         THEN <<Head(seq)>> \o LongTexts(Tail(seq))
         ELSE LongTexts(Tail(seq))

\* a list without the later occurrences of its elements
FirstOccurrences(seq) ==
    LET first == {k \in 1..Len(seq) : \A j \in 1..(k - 1) : seq[j] # seq[k]}
        F[k \in 0..Len(seq)] ==
            IF k = 0 THEN <<>>
            ELSE IF k \in first THEN Append(F[k - 1], seq[k]) ELSE F[k - 1]
    IN F[Len(seq)]

\* C14: the comment sample never holds a text twice, and a fetch that
\* returns normally gives the long-enough texts of all passes in order of
\* first occurrence, cut to the number asked for: fetched [a, a, b] gives
\* exactly [a, b].
C14_SampleIsFirstOccurrences ==
    /\ \A j, k \in 1..Len(comments) : j # k => comments[j] # comments[k]
    /\ fpc = "done" /\ ~fetch_error =>
          LET expected == FirstOccurrences(LongTexts(fetched))
          IN comments = SubSeq(expected, 1, Min(Len(expected), fetch_target))
    /\ fpc = "done" /\ ~fetch_error
          /\ fetched = <<"so touching", "so touching", "lol funny">> =>
              comments = SubSeq(<<"so touching", "lol funny">>, 1,
                                Min(2, fetch_target))

\* C14 witness: the passes have returned [a, a, b], all long enough, and
\* the fetch has returned the sample [a, b].
C14_Witness ==
    /\ fpc = "done" /\ ~fetch_error
    /\ fetched = <<"so touching", "so touching", "lol funny">>
    /\ comments = <<"so touching", "lol funny">>

\* ===================================================================
\*             properties of the scoring (ScoreSpec)
\* ===================================================================

\* C15: for heartwarming (k = 0.05) and funny (k = 0.03) the category
\* validation of a non-empty sample is min(keyword_hits / max(comment_count
\* * k, 1), 1.0) with keyword_hits the number of comments that contain a
\* category keyword; 400 heartwarming comments of which 30 contain
\* 'touching' or 'crying' give 1.0.
C15_ValidationCountsComments ==
    spc # "analyse" /\ comments_data.count > 0 =>
        /\ rate_category = "heartwarming" =>
              analysis.category_validation =
                  Ratio(comments_data.with_keyword, comments_data.count, 5)
        /\ rate_category = "funny" =>
              analysis.category_validation =
                  Ratio(comments_data.with_keyword, comments_data.count, 3)
        /\ rate_category = "heartwarming" /\ comments_data.count = 400
              /\ comments_data.with_keyword = 30 =>
                  analysis.category_validation = 1000

\* C16: the final score returned is at most 10.0, whatever the video, the
\* comment sample and the category.
C16_ScoreAtMostTen ==
    /\ final_score <= MaxScore
    /\ spc = "scored" =>
          final_score * 10000 <=
              UncappedScore(analysis, rated_video, rate_category)

\* C16 witness: a score has been returned for an input whose score before
\* the cap is above 10.0, and it is exactly 10.0.
C16_Witness ==
    /\ spc = "scored" /\ final_score = MaxScore
    /\ UncappedScore(analysis, rated_video, rate_category) > 10000000

\* the confidence calculate_enhanced_score returns for sample c of the
\* category being rated
ConfidenceOf(c) ==
    Confidence(AnalyzeCommentsForCategory(c, rate_category), c)

\* category_validation of sample c exceeds 0.6 for the category being rated
Validated(c) ==
    AnalyzeCommentsForCategory(c, rate_category).category_validation > 600

\* C26 as stated: the confidence returned for a sample is at most 1.0 and
\* is never lower than the confidence of a sample of the same category
\* with fewer comments.
C26_MonotonicInCount ==
    spc = "scored" =>
        /\ confidence <= 1000
        /\ \A c \in CommentSamples :
              c.count < comments_data.count => ConfidenceOf(c) <= confidence

\* C26 as amended: the confidence is 0.3, plus 0.3 for 300 comments or more,
\* plus 0.2 for 400 or more, plus 0.2 when category_validation exceeds 0.6,
\* and never above 1.0. It is never lower than the confidence of a sample
\* of the same category with fewer comments when both samples fall on the same side of the 0.6 validation test; across that test a
\* larger sample can have the lower confidence.
C26_MonotonicGivenValidation ==
    spc = "scored" =>
        /\ confidence <= 1000
        /\ confidence =
              300 + (IF comments_data.count >= 300 THEN 300 ELSE 0)
                  + (IF comments_data.count >= 400 THEN 200 ELSE 0)
                  + (IF analysis.category_validation > 600 THEN 200 ELSE 0)
        /\ \A c \in CommentSamples :
              /\ c.count < comments_data.count
              /\ Validated(c) <=> analysis.category_validation > 600
              => ConfidenceOf(c) <= confidence

\* C26 witness: a sample of 400 comments has been scored with confidence
\* 0.8, above the 0.6 of a sample of 300 comments that falls on the same
\* side of the validation test.
C26_Witness ==
    /\ spc = "scored" /\ comments_data.count = 400 /\ confidence = 800
    /\ \E c \in CommentSamples :
          /\ c.count = 300 /\ ConfidenceOf(c) = 600
          /\ Validated(c) <=> analysis.category_validation > 600

\* C29: a video whose comment sample is empty (nothing fetched, or the
\* fetch raised and returned an empty list) is scored below 6.5 and so
\* fails the test for tobe_links, for every category and every metadata:
\* the analysis is all zero, the authenticity penalty applies, and no
\* validation bonus does.
C29_EmptySampleBelowThreshold ==
    spc = "scored" /\ comments_data.count = 0 =>
        /\ analysis = [category_validation |-> 0, emotional_alignment |-> 0,
                       authenticity_support |-> 0]
        /\ final_score < Threshold
        /\ ~Accepts(final_score)

\* C29 witness: a traumatic video with the highest metadata components and
\* an empty comment sample has been scored 4.08.
C29_Witness ==
    /\ spc = "scored" /\ comments_data.count = 0
    /\ rate_category = "traumatic" /\ rated_video.verified
    /\ final_score = 408

====
